---- MODULE Spec2Model ----
(***************************************************************************)
(* MoniBot Discord: the giveaway distributor (handleGiveaway), the single  *)
(* transfer handler (handleP2P) and the transfer executor (executeP2P)     *)
(* they share, as a state machine.  Every `await` of the JavaScript source *)
(* is a suspension point: a handler runs atomically from one await to the  *)
(* next, and handlers of different messages interleave at the awaits.      *)
(***************************************************************************)
EXTENDS Integers, FiniteSets, Sequences, TLC

\* ---------------------------------------------------------------- bounds
MaxClaims == 2        \* claim messages delivered to one giveaway collector
NumUsers == 2         \* distinct Discord users who reply to the giveaway
MaxFunds == 2         \* initial balance / allowance, in multiples of command.amount
maxParticipants == 1  \* command.maxParticipants of the giveaway under check
MaxReports == 3       \* rotateRpc calls made for one chain name
TickMs == 22500       \* milliseconds between two readings of Date.now()
MaxTicks == 4         \* readings of Date.now() after the first
MaxCommands == 7      \* prefixed messages that reach checkRateLimit
MaxDeliveries == 3    \* deliveries of one Discord message to the MessageCreate handler
MaxPolls == 22        \* runs of the 30-second result poller

\* ---------------------------------------------------------------- constants
Chains == <<"base", "bsc", "tempo">>      \* Object.keys(CHAIN_CONFIGS), in order
ChainSet == {Chains[i] : i \in 1..Len(Chains)}
CommandChain == "base"                    \* command.chain of the command under check

Claims == 1..MaxClaims                    \* handlers of the collector's 'collect' event
Cmd == 0                                  \* the handler of the command message itself
Procs == 0..MaxClaims
Users == 1..NumUsers

RecipientTags == {"alice", "bob"}         \* MoniTags with a profile
Recipients == <<"alice", "bob">>          \* command.recipients of the multi-send
ClaimTags == RecipientTags \cup {"ghost", "owner", "monibot"}
NoTag == "none"

ErrorKinds == {"ERROR_BALANCE", "ERROR_ALLOWANCE", "ERROR_REVERTED", "OTHER"}
NoErr == "none"
NoToken == [msg |-> 0, idx |-> 0]
NoTx == [chain |-> "none", token |-> NoToken, to |-> NoTag, units |-> <<>>, data |-> <<>>]
NoScan == [from |-> "none", down |-> {}, checks |-> <<>>]
NoClient == [chain |-> "none", rpc |-> 0]
NoRateCheck == [user |-> 0, allowed |-> TRUE, seen |-> 0, retryAfter |-> 0]

\* command.amount values under check, in hundredths of a token: parseFloat of
\* "0", "0.01", "0.5", "15.00".
Amounts == {0, 1, 50, 1500}
\* Names rotateRpc and getClients are called with; "solana" has no config.
ChainNames == ChainSet \cup {"solana"}

VARIABLES
  cmdType,       \* command.type dispatched by the MessageCreate handler
  amount,        \* command.amount = parseFloat(match[1]), in hundredths of a token
  reported,      \* history: reported[name] = rotateRpc(name) calls made so far
  client,        \* the endpoint the last getClients call built its clients on
  now,           \* Date.now(), in milliseconds since the process started
  userCommandTimestamps,  \* const userCommandTimestamps = new Map()
  allowedLog,    \* history: allowedLog[u] = Date.now() of every allowed command of u
  rateCheck,     \* const rateCheck = checkRateLimit(message.author.id), the last one
  rows,          \* platform_commands: the message ids that have a row
  delivery,      \* delivery[d]: how far the handler of delivery d of the message has got
  executed,      \* history: deliveries whose handler went on to execute the command
  jobStart,      \* scheduled_jobs: started_at of each finished job, in milliseconds
  notifiedJobIds,  \* const notifiedJobIds = new Set()
  notifications, \* history: notifications[j] = channel.send calls made for job j
  fetched,       \* const jobs = await getCompletedScheduledJobs() of the running poll
  nextPoll,      \* when the setInterval(pollScheduledJobResults, 30000) timer is due
  nextClear,     \* when the setInterval(() => notifiedJobIds.clear(), 10 min) timer is due
  pc,            \* pc[p]: the await at which handler p is suspended
  err,           \* err[p]: the error caught by handler p's (outer) catch
  errTx,         \* errTx[p]: the transaction named in that error's message
  author,        \* author[h]: reply.author.id of claim message h
  tag,           \* tag[h]: the MoniTag extracted from claim message h
  token,         \* token[p]: commandId passed to executeP2P
  chainOf,       \* chainOf[p]: chainName of p's running executeP2P (activeChain)
  nonceRead,     \* nonceRead[p]: nonce returned by getNonce to p's executeP2P
  phase,         \* phase[p]: 1 = attempt on command.chain, 2 = attempt on alt.chain
  claimedCount,  \* let claimedCount
  claimedUsers,  \* const claimedUsers = new Set()
  ended,         \* collector.ended
  endReason,     \* reason given to the collector's 'end' event
  announced,     \* claimedCount as the 'end' listener printed it, NotAnnounced before
  routerNonce,   \* routerNonce[c]: getNonce(sender) on chain c
  bal,           \* bal[c]: sender's token balance on c, in multiples of amount
  allow,         \* allow[c]: sender's allowance to the router on c, same unit
  txs,           \* transactions handed to walletClient.sendTransaction
  paid,          \* paid[<<claimant, recipient>>]: receipts that came back successful
  alt,           \* const alt = await findAlternateChain(...)
  scan,          \* the last findAlternateChain call: its currentChain and failed chains
  rpcIndexes,    \* const rpcIndexes: current RPC index per chain
  todo,          \* multi-send: command.recipients the for loop has not reached yet
  results,       \* multi-send: const results = []
  statusReason,  \* platform_commands.error_reason written by updateCommandStatus
  cmdStatus,     \* platform_commands.status of the command row
  ledger,        \* ledger[p]: chains of the rows logMonibotTransaction inserted for p
  failures,      \* history: <<author, kind>> of every claim that reached the catch block
  turnedAway,    \* history: authors refused by the capacity check
  events         \* history: what kinds of admission have happened in this round

\* command.amount in the unit bal and allow are counted in: balances are
\* multiples of a positive command.amount, and any balance covers a zero one.
Amount == IF amount > 0 THEN 1 ELSE 0

rateVars == <<now, userCommandTimestamps, allowedLog, rateCheck>>
dedupVars == <<rows, delivery, executed>>
pollVars == <<jobStart, notifiedJobIds, notifications, fetched, nextPoll, nextClear>>
libVars == <<rateVars, dedupVars, pollVars>>
cmdVars == <<cmdType, amount, reported, client, libVars>>
chainVars == <<routerNonce, bal, allow>>
txVars == <<txs, paid>>
giveawayVars == <<claimedCount, claimedUsers, ended, endReason, announced>>
msgVars == <<author, tag>>
histVars == <<failures, turnedAway, events>>
errVars == <<err, errTx>>
routeVars == <<alt, scan, rpcIndexes, todo, results, statusReason>>
vars == <<cmdType, amount, reported, client, libVars, pc, err, errTx, author, tag, token, chainOf, nonceRead, phase,
          claimedCount, claimedUsers, ended, endReason, announced, routerNonce, bal, allow,
          txs, paid, alt, scan, rpcIndexes, todo, results, statusReason, cmdStatus,
          ledger,
          failures, turnedAway, events>>

\* ---------------------------------------------------------------- amounts
\* A non-negative integer as the sequence of its decimal digits; token units reach
\* 10^18 and more, so they are kept as digit sequences and never as integers.
RECURSIVE Digits(_)
Digits(n) == IF n < 10 THEN <<n>> ELSE Append(Digits(n \div 10), n % 10)

Zeros(k) == [i \in 1..k |-> 0]

\* BigInt("000150") is 150n: leading zeros carry no value.
RECURSIVE StripZeros(_)
StripZeros(ds) == IF Len(ds) > 1 /\ Head(ds) = 0 THEN StripZeros(Tail(ds)) ELSE ds

\* CHAIN_CONFIGS[c].decimals
TokenDecimals == [base |-> 6, bsc |-> 18, tempo |-> 6]

\* config.decimals of the chain executeP2P was called with
DecimalsOfPreferred(c) == TokenDecimals[CommandChain]

DecimalsOf(c) == TokenDecimals[c]

\* amount.toFixed(decimals), for an amount a of hundredths and decimals >= 2: the
\* integer part, a point, the two digits of the hundredths and zeros up to `decimals`.
\* The doubles of Amounts differ from their decimal value by less than half of
\* 10^-18, so toFixed(18) prints no digit of the binary representation error.
ToFixed(a, decimals) ==
  [int |-> Digits(a \div 100),
   frac |-> <<(a \div 10) % 10, a % 10>> \o Zeros(decimals - 2)]

\* parseUnits(value, decimals): the fraction is cut or zero-padded to `decimals`
\* digits, appended to the integer part, and the whole is read as one integer.
ParseUnits(value, decimals) ==
  LET padded == value.frac \o Zeros(decimals)
  IN StripZeros(value.int \o SubSeq(padded, 1, decimals))

\* const amountInUnits = parseUnits(amount.toFixed(config.decimals), config.decimals)
AmountInUnits(a, c) == ParseUnits(ToFixed(a, DecimalsOf(c)), DecimalsOf(c))

\* ---------------------------------------------------------------- calldata
\* generateBuilderCodeSuffix(): `8021${padded.toString('hex')}8021`, one fixed word
BuilderCodeSuffix == "8021_bc_qt9yxo1d_8021"

\* appendBuilderCode(calldata): the suffix goes after the calldata, which is
\* returned as it is when it is empty.
AppendBuilderCode(calldata) ==
  IF calldata = <<>> THEN calldata ELSE Append(calldata, BuilderCodeSuffix)

\* config.useBuilderCode
UseBuilderCodeAll(c) == TRUE

UseBuilderCode(c) == c = "base"

\* encodeFunctionData({ functionName: 'executeP2P', args: [fromAddress, toAddress,
\* amountInUnits, nonce, `discord_${commandId}`] }), one word per field.
EncodeFunctionData(from, to, units, nonce, commandId) ==
  <<"executeP2P", from, to, units, nonce, commandId>>

\* The data of the transaction p's executeP2P submits.
Calldata(p) ==
  LET core == EncodeFunctionData("sender", tag[p], AmountInUnits(amount, chainOf[p]),
                                 nonceRead[p], token[p])
  IN IF UseBuilderCode(chainOf[p]) THEN AppendBuilderCode(core) ELSE core

\* ---------------------------------------------------------------- collector
\* collector.stop(reason): a no-op once ended, else ends with that reason.
StopReason(reason) == IF ended THEN endReason ELSE reason

\* collector.on('end', ...): `${claimedCount}/${command.maxParticipants} spots
\* claimed`, emitted synchronously by the stop that ends the collector.
NotAnnounced == 0 - 1

Announce == IF ended THEN announced ELSE claimedCount

Stop(reason) ==
  /\ ended' = TRUE
  /\ endReason' = StopReason(reason)
  /\ announced' = Announce

\* ---------------------------------------------------------------- giveaway: catch
\* claimedUsers.delete(reply.author.id)
ReleaseUsersKeep(a) == claimedUsers

ReleaseUsersClear(a) == {}

ReleaseUsers(a) == claimedUsers \ {a}

\* The reason the catch block stops the collector with, "none" when it does not.
CatchStopAlways(e) == "funds"

CatchStopReason(e) ==
  IF e = "ERROR_BALANCE" THEN "funds"
  ELSE IF e = "ERROR_ALLOWANCE" THEN "allowance"
  ELSE "none"

\* What is kept of the transaction p's executeP2P submits: the chain, the
\* recipient, the idempotency token `discord_${commandId}` and amountInUnits.
CurTx(p) ==
  [chain |-> chainOf[p], token |-> token[p], to |-> tag[p],
   units |-> AmountInUnits(amount, chainOf[p]), data |-> Calldata(p)]

\* The transaction hash an error message of executeP2P carries:
\* `ERROR_REVERTED:Transaction reverted on-chain (${hash})`, and none otherwise.
ErrorTx(p, e) == IF e = "ERROR_REVERTED" THEN CurTx(p) ELSE NoTx

FailKind(e) == IF CatchStopReason(e) = "none" THEN "generic" ELSE "funds"

FailedUsers == {f[1] : f \in failures}

\* catch (error) { claimedUsers.delete(...); claimedCount--; ... await reply.reply(...)
\* The handler's locals that nothing reads after this point are dropped.
GiveawayCatch(h, e) ==
  /\ claimedUsers' = ReleaseUsers(author[h])
  /\ claimedCount' = claimedCount - 1
  /\ err' = [err EXCEPT ![h] = e]
  /\ errTx' = [errTx EXCEPT ![h] = ErrorTx(h, e)]
  /\ pc' = [pc EXCEPT ![h] = "g_catchreply"]
  /\ failures' = failures \cup {<<author[h], FailKind(e)>>}
  /\ author' = [author EXCEPT ![h] = 0]
  /\ tag' = [tag EXCEPT ![h] = NoTag]
  /\ token' = [token EXCEPT ![h] = NoToken]
  /\ nonceRead' = [nonceRead EXCEPT ![h] = 0]
  /\ UNCHANGED <<cmdVars, chainOf, phase, ended, endReason, announced,
                 routeVars, cmdStatus, ledger, turnedAway, events>>

\* executeP2P resolved: the handler calls logMonibotTransaction (the insert is
\* issued at once; a failed insert is logged, never thrown) and awaits it and then
\* reply.reply.
GiveawayReturn(h) ==
  /\ pc' = [pc EXCEPT ![h] = "g_reply"]
  /\ ledger' = [ledger EXCEPT ![h] = Append(@, chainOf[h])]
  /\ tag' = [tag EXCEPT ![h] = NoTag]
  /\ token' = [token EXCEPT ![h] = NoToken]
  /\ nonceRead' = [nonceRead EXCEPT ![h] = 0]
  /\ UNCHANGED <<cmdVars, errVars, author, chainOf, phase, giveawayVars,
                 routeVars, cmdStatus, histVars>>

\* ---------------------------------------------------------------- handleP2P: catch
\* if (error.message.includes('ERROR_BALANCE') || error.message.includes('ERROR_ALLOWANCE'))
ShouldRerouteAny(e) == e \in {"ERROR_BALANCE", "ERROR_ALLOWANCE", "ERROR_REVERTED"}

ShouldRerouteAlways(e) == TRUE

ShouldReroute(e) == e \in {"ERROR_BALANCE", "ERROR_ALLOWANCE"}

\* The outer catch (first attempt) awaits findAlternateChain on a funds error and
\* falls to the failure tail otherwise; the inner catch (retry) only logs and falls
\* to the failure tail, which still reports the first attempt's error.
P2PCatch(p, e) ==
  /\ IF phase[p] = 1
       THEN /\ err' = [err EXCEPT ![p] = e]
            /\ errTx' = [errTx EXCEPT ![p] = ErrorTx(p, e)]
            /\ pc' = [pc EXCEPT ![p] = IF ShouldReroute(e) THEN "p_scan" ELSE "p_fail"]
       ELSE /\ UNCHANGED errVars
            /\ pc' = [pc EXCEPT ![p] = "p_fail"]
  /\ nonceRead' = [nonceRead EXCEPT ![p] = 0]
  /\ UNCHANGED <<cmdVars, msgVars, token, chainOf, phase, giveawayVars,
                 routeVars, cmdStatus, ledger, histVars>>

P2PReturn(p) ==
  /\ pc' = [pc EXCEPT ![p] = "p_log"]
  /\ nonceRead' = [nonceRead EXCEPT ![p] = 0]
  /\ UNCHANGED <<cmdVars, errVars, msgVars, token, chainOf, phase, giveawayVars,
                 routeVars, cmdStatus, ledger, histVars>>

\* ---------------------------------------------------------------- handleP2PMulti: catch
\* results.push({ tag, status, reason, chain })
Pushed(t, st, r, c) == Append(results, [tag |-> t, status |-> st, reason |-> r, chain |-> c])

\* The outer catch of one recipient's attempt awaits findAlternateChain on a funds
\* error and otherwise records the recipient as failed with the error's prefix; the
\* inner catch records the retry's error.  Either way the loop goes on.
MultiCatch(p, e) ==
  /\ IF phase[p] = 1
       THEN /\ err' = [err EXCEPT ![p] = e]
            /\ errTx' = [errTx EXCEPT ![p] = ErrorTx(p, e)]
            /\ IF ShouldReroute(e)
                 THEN /\ pc' = [pc EXCEPT ![p] = "m_scan"]
                      /\ UNCHANGED results
                 ELSE /\ pc' = [pc EXCEPT ![p] = "m_next"]
                      /\ results' = Pushed(tag[p], "failed", e, "none")
       ELSE /\ UNCHANGED errVars
            /\ pc' = [pc EXCEPT ![p] = "m_next"]
            /\ results' = Pushed(tag[p], "failed", e, "none")
  /\ nonceRead' = [nonceRead EXCEPT ![p] = 0]
  /\ UNCHANGED <<cmdVars, msgVars, token, chainOf, phase, giveawayVars, alt, scan,
                 rpcIndexes, todo, statusReason, cmdStatus, ledger, histVars>>

MultiReturn(p) ==
  /\ pc' = [pc EXCEPT ![p] = "m_log"]
  /\ nonceRead' = [nonceRead EXCEPT ![p] = 0]
  /\ UNCHANGED <<cmdVars, errVars, msgVars, token, chainOf, phase, giveawayVars,
                 routeVars, cmdStatus, ledger, histVars>>

\* ---------------------------------------------------------------- RPC failover
\* CHAIN_CONFIGS[c].rpcs.length with no RPC URL set in the environment
RpcCount == [base |-> 3, bsc |-> 3, tempo |-> 1]

\* rotateRpc(chainName): advance the chain's RPC index unless it is at the last one.
\* No function of the repository calls it.
RotateRpcWrap(c) ==
  IF c \notin DOMAIN RpcCount THEN rpcIndexes
  ELSE [rpcIndexes EXCEPT ![c] = (@ + 1) % RpcCount[c]]

RotateRpc(c) ==
  IF c \notin DOMAIN RpcCount THEN rpcIndexes
  ELSE IF rpcIndexes[c] < RpcCount[c] - 1
    THEN [rpcIndexes EXCEPT ![c] = @ + 1]
    ELSE rpcIndexes

Min(a, b) == IF a < b THEN a ELSE b

\* getClients(chainName): the index of the endpoint the clients are built on,
\* const rpcIdx = Math.min(rpcIndexes[chainName] || 0, config.rpcs.length - 1)
GetClientsFirst(c) == 0

GetClients(c) == Min(rpcIndexes[c], RpcCount[c] - 1)

\* One call of rotateRpc(name), as a failure report for that chain name.
RotateRpcCall(name) ==
  /\ reported[name] < MaxReports
  /\ rpcIndexes' = RotateRpc(name)
  /\ reported' = [reported EXCEPT ![name] = @ + 1]
  /\ UNCHANGED <<cmdType, amount, client, libVars, pc, errVars, msgVars, token, chainOf,
                 nonceRead, phase, giveawayVars, chainVars, txVars, alt, scan, todo,
                 results, statusReason, cmdStatus, ledger, histVars>>

\* One call of getClients(name); it throws 'Unsupported chain' for a name with no
\* config and builds nothing.
GetClientsCall(name) ==
  /\ \/ /\ name \in DOMAIN RpcCount
        /\ client' = [chain |-> name, rpc |-> GetClients(name)]
     \/ /\ name \notin DOMAIN RpcCount
        /\ client' = NoClient
  /\ UNCHANGED <<cmdType, amount, reported, libVars, pc, errVars, msgVars, token, chainOf,
                 nonceRead, phase, giveawayVars, chainVars, txVars, routeVars,
                 cmdStatus, ledger, histVars>>

\* ---------------------------------------------------------------- rate limiter
RATE_LIMIT_MAX == 5
RATE_LIMIT_WINDOW_MS == 60 * 1000

\* Math.ceil(x / d) for x >= 0 and d > 0
CeilDiv(x, d) == (x + d - 1) \div d

\* timestamps.filter(t => now - t < RATE_LIMIT_WINDOW_MS)
FreshAll(timestamps) == timestamps

Fresh(timestamps) == SelectSeq(timestamps, LAMBDA t : now - t < RATE_LIMIT_WINDOW_MS)

\* The state of the payment handlers, which the actions on module-level state and
\* on the dispatcher leave alone.
CoreFrame ==
  UNCHANGED <<cmdType, amount, reported, client, pc, errVars, msgVars, token, chainOf,
              nonceRead, phase, giveawayVars, chainVars, txVars, routeVars, cmdStatus,
              ledger, histVars>>

\* Time passes between two events of the process.
ClockTick ==
  /\ now + TickMs <= MaxTicks * TickMs
  /\ now' = now + TickMs
  /\ UNCHANGED <<userCommandTimestamps, allowedLog, rateCheck, dedupVars, pollVars>>
  /\ CoreFrame

\* Commands that have reached checkRateLimit so far, allowed or not (history).
CommandsSeen == rateCheck.seen

\* checkRateLimit(userId), called by the MessageCreate handler for a prefixed
\* message of user u before anything else is awaited.
CheckRateLimit(u) ==
  LET timestamps == Fresh(userCommandTimestamps[u])
  IN /\ CommandsSeen < MaxCommands
     /\ IF Len(timestamps) >= RATE_LIMIT_MAX
          THEN /\ rateCheck' =
                    [user |-> u, allowed |-> FALSE, seen |-> CommandsSeen + 1,
                     retryAfter |->
                       CeilDiv(RATE_LIMIT_WINDOW_MS - (now - timestamps[1]), 1000)]
               /\ UNCHANGED <<userCommandTimestamps, allowedLog>>
          ELSE /\ userCommandTimestamps' =
                    [userCommandTimestamps EXCEPT ![u] = Append(timestamps, now)]
               /\ allowedLog' = [allowedLog EXCEPT ![u] = Append(@, now)]
               /\ rateCheck' = [user |-> u, allowed |-> TRUE, seen |-> CommandsSeen + 1,
                                retryAfter |-> 0]
     /\ now' = now
     /\ UNCHANGED <<dedupVars, pollVars>>
     /\ CoreFrame

\* The setInterval cleanup: stale timestamps are dropped, a user with none left is
\* deleted from the map (and reads as [] again).
RateCleanup ==
  /\ userCommandTimestamps' = [u \in Users |-> Fresh(userCommandTimestamps[u])]
  /\ UNCHANGED <<now, allowedLog, rateCheck, dedupVars, pollVars>>
  /\ CoreFrame

\* ---------------------------------------------------------------- deduplication
Deliveries == 1..MaxDeliveries
MessageId == 1                      \* message.id of the message that is redelivered

\* The command types whose handler calls logCommand before it executes anything:
\* handleP2P and handleGiveaway do, handleP2PMulti and handleScheduledCommand do not.
LogsCommand(type) == type \in {"p2p", "giveaway"}

\* The dispatcher for delivery d.  A message with a schedule goes to
\* handleScheduledCommand before the deduplication; any other command awaits
\* isCommandProcessed('discord', message.id), which answers false on a query error.
Dispatch(d) ==
  /\ delivery[d] = "new"
  /\ \/ /\ cmdType = "scheduled"
        /\ delivery' = [delivery EXCEPT ![d] = "handling"]
     \/ /\ cmdType # "scheduled"
        /\ MessageId \in rows
        /\ delivery' = [delivery EXCEPT ![d] = "dropped"]
     \/ /\ cmdType # "scheduled"
        /\ MessageId \notin rows
        /\ delivery' = [delivery EXCEPT ![d] = "handling"]
     \/ /\ cmdType # "scheduled"
        /\ delivery' = [delivery EXCEPT ![d] = "handling"]
  /\ UNCHANGED <<rateVars, pollVars, rows, executed>>
  /\ CoreFrame

\* The handler up to and including its logCommand call, if it has one; the upsert
\* leaves one row per message id, or none when it fails.
HandlerLog(d) ==
  /\ delivery[d] = "handling"
  /\ delivery' = [delivery EXCEPT ![d] = "logged"]
  /\ \/ /\ LogsCommand(cmdType)
        /\ rows' = rows \cup {MessageId}
     \/ rows' = rows
  /\ UNCHANGED <<rateVars, pollVars, executed>>
  /\ CoreFrame

\* The handler goes on to execute: executeP2P for the recipient(s), the giveaway
\* collector, or createScheduledJob.
HandlerExecute(d) ==
  /\ delivery[d] = "logged"
  /\ delivery' = [delivery EXCEPT ![d] = "done"]
  /\ executed' = executed + 1
  /\ UNCHANGED <<rateVars, pollVars, rows>>
  /\ CoreFrame

\* ---------------------------------------------------------------- job result poller
Jobs == {"job1", "job2"}            \* scheduled jobs of this platform that finished
NotFetched == {"none"}              \* no poll is between its query and its loop
POLL_MS == 30000
CLEAR_MS == 10 * 60 * 1000
RECENT_MS == 2 * 60 * 1000

\* getCompletedScheduledJobs(): completed or failed jobs with started_at >= now - 2 min
GetCompletedScheduledJobs ==
  {j \in Jobs : jobStart[j] <= now /\ jobStart[j] >= now - RECENT_MS}

\* Neither timer is due and no poll is running: 30 seconds pass.
PollerWait ==
  /\ fetched = NotFetched
  /\ nextPoll > now /\ nextClear > now
  /\ now + POLL_MS <= MaxPolls * POLL_MS
  /\ now' = now + POLL_MS
  /\ UNCHANGED <<userCommandTimestamps, allowedLog, rateCheck, dedupVars, jobStart,
                 notifiedJobIds, notifications, fetched, nextPoll, nextClear>>
  /\ CoreFrame

\* The poll timer fires: pollScheduledJobResults up to its await of the query.
PollFetch ==
  /\ fetched = NotFetched
  /\ nextPoll <= now
  /\ fetched' = GetCompletedScheduledJobs
  /\ nextPoll' = nextPoll + POLL_MS
  /\ UNCHANGED <<rateVars, dedupVars, jobStart, notifiedJobIds, notifications, nextClear>>
  /\ CoreFrame

\* The jobs of the loop that are not skipped by `if (notifiedJobIds.has(job.id)) continue`
ToNotify(jobs) == jobs \ notifiedJobIds

\* for (const job of jobs): skip the ids already in the set, add the others and
\* send one message for each of them.
PollLoop ==
  /\ fetched # NotFetched
  /\ notifiedJobIds' = notifiedJobIds \cup fetched
  /\ notifications' = [j \in Jobs |->
                         notifications[j] + (IF j \in ToNotify(fetched) THEN 1 ELSE 0)]
  /\ fetched' = NotFetched
  /\ UNCHANGED <<rateVars, dedupVars, jobStart, nextPoll, nextClear>>
  /\ CoreFrame

\* The clear timer fires: notifiedJobIds.clear()
ClearNotified ==
  /\ nextClear <= now
  /\ notifiedJobIds' = {}
  /\ nextClear' = nextClear + CLEAR_MS
  /\ UNCHANGED <<rateVars, dedupVars, jobStart, notifications, fetched, nextPoll>>
  /\ CoreFrame

\* ---------------------------------------------------------------- executeP2P
\* How the caller of executeP2P continues when it throws e / when it returns.
Throw(p, e) ==
  IF cmdType = "giveaway" THEN GiveawayCatch(p, e)
  ELSE IF cmdType = "multi" THEN MultiCatch(p, e)
  ELSE P2PCatch(p, e)

Return(p) ==
  IF cmdType = "giveaway" THEN GiveawayReturn(p)
  ELSE IF cmdType = "multi" THEN MultiReturn(p)
  ELSE P2PReturn(p)

\* What a step inside executeP2P leaves alone: everything of its caller.
CallerFrame ==
  UNCHANGED <<cmdVars, errVars, msgVars, token, chainOf, phase, giveawayVars,
              routeVars, cmdStatus, ledger, histVars>>

InExec(p) == pc[p] \in {"x_read", "x_send", "x_receipt"}

\* if (balance < amountInUnits) throw ERROR_BALANCE; if (allowance < amountInUnits)
\* throw ERROR_ALLOWANCE: the two pre-flight checks on chain c, in the code's order.
PreflightNone(c) == "ok"

PreflightAllowanceFirst(c) ==
  IF allow[c] < Amount THEN "ERROR_ALLOWANCE"
  ELSE IF bal[c] < Amount THEN "ERROR_BALANCE"
  ELSE "ok"

Preflight(c) ==
  IF bal[c] < Amount THEN "ERROR_BALANCE"
  ELSE IF allow[c] < Amount THEN "ERROR_ALLOWANCE"
  ELSE "ok"

\* const [nonce, balance, allowance] = await Promise.all([...]); the two pre-flight throws
ExecRead(p) ==
  /\ pc[p] = "x_read"
  /\ \/ /\ Preflight(chainOf[p]) # "ok"
        /\ Throw(p, Preflight(chainOf[p]))
     \/ /\ Preflight(chainOf[p]) = "ok"
        /\ nonceRead' = [nonceRead EXCEPT ![p] = routerNonce[chainOf[p]]]
        /\ pc' = [pc EXCEPT ![p] = "x_send"]
        /\ CallerFrame
     \/ Throw(p, "OTHER")
  /\ UNCHANGED <<chainVars, txVars>>

\* calculateFee, estimateContractGas and walletClient.sendTransaction: three awaits
\* in a row that touch nothing shared until the transaction is handed over; a
\* failure of any of them throws before anything is submitted.
ExecSubmit(p) ==
  /\ pc[p] = "x_send"
  /\ \/ /\ txs' = txs \cup {CurTx(p)}
        /\ pc' = [pc EXCEPT ![p] = "x_receipt"]
        /\ CallerFrame
        /\ UNCHANGED nonceRead
     \/ /\ Throw(p, "OTHER")
        /\ txs' = txs
  /\ UNCHANGED <<chainVars, paid>>

\* const receipt = await publicClient.waitForTransactionReceipt({ hash }).  The
\* router executes the transfer only for the sender's current nonce and moves
\* Amount out of balance and allowance; anything else it reverts.
ExecReceipt(p) ==
  /\ pc[p] = "x_receipt"
  /\ \/ /\ nonceRead[p] = routerNonce[chainOf[p]]
        /\ bal[chainOf[p]] >= Amount
        /\ allow[chainOf[p]] >= Amount
        /\ routerNonce' = [routerNonce EXCEPT ![chainOf[p]] = @ + 1]
        /\ bal' = [bal EXCEPT ![chainOf[p]] = @ - Amount]
        /\ allow' = [allow EXCEPT ![chainOf[p]] = @ - Amount]
        /\ paid' = [paid EXCEPT ![<<author[p], tag[p]>>] = @ + 1]
        /\ Return(p)
     \/ /\ Throw(p, "ERROR_REVERTED")
        /\ UNCHANGED <<chainVars, paid>>
     \/ /\ Throw(p, "OTHER")
        /\ UNCHANGED <<chainVars, paid>>
  /\ UNCHANGED txs

\* ---------------------------------------------------------------- handleGiveaway
\* The allowance sanity check on the total budget, logCommand and the announcement,
\* up to createMessageCollector.  checkAllowance lets the command through when the
\* allowance read itself fails.
GiveawayStart ==
  /\ cmdType = "giveaway"
  /\ pc[Cmd] = "g_start"
  /\ \/ /\ allow[CommandChain] < Amount * maxParticipants
        /\ pc' = [pc EXCEPT ![Cmd] = "done"]
        /\ UNCHANGED cmdStatus
     \/ /\ allow[CommandChain] >= Amount * maxParticipants
        /\ pc' = [pc EXCEPT ![Cmd] = "collecting"]
        /\ cmdStatus' = "pending"
     \/ /\ pc' = [pc EXCEPT ![Cmd] = "collecting"]
        /\ cmdStatus' = "pending"
  /\ UNCHANGED <<cmdVars, errVars, msgVars, token, chainOf, nonceRead, phase, giveawayVars,
                 chainVars, txVars, routeVars, ledger, histVars>>

\* collector.on('collect', ...) from its first line to `await getProfileByMonitag`.
\* The collector delivers messages in order, and none once it has ended.
Collect(h) ==
  /\ cmdType = "giveaway"
  /\ pc[Cmd] = "collecting"
  /\ pc[h] = "idle"
  /\ \A k \in Claims : k < h => pc[k] # "idle"
  /\ ~ended
  /\ \E a \in Users, t \in ClaimTags :
       IF claimedCount >= maxParticipants
         THEN /\ Stop("limit")
              /\ pc' = [pc EXCEPT ![h] = "done"]
              /\ turnedAway' = turnedAway \cup {a}
              /\ UNCHANGED msgVars
         ELSE /\ UNCHANGED <<ended, endReason, announced, turnedAway>>
              /\ IF a \in claimedUsers \/ t \in {"monibot", "monipay"}
                   THEN /\ pc' = [pc EXCEPT ![h] = "done"]
                        /\ UNCHANGED msgVars
                   ELSE /\ pc' = [pc EXCEPT ![h] = "g_lookup"]
                        /\ author' = [author EXCEPT ![h] = a]
                        /\ tag' = [tag EXCEPT ![h] = t]
  /\ UNCHANGED <<cmdVars, errVars, token, chainOf, nonceRead, phase, claimedCount, claimedUsers,
                 chainVars, txVars, routeVars, cmdStatus, ledger, failures, events>>

\* History only: how the admission of a claim by author a relates to earlier failures.
AdmissionEvents(a) ==
  (IF a \in FailedUsers THEN {"readmitted"} ELSE {})
  \cup (IF ~ended /\ a \notin FailedUsers /\ \E f \in failures : f[2] = "generic"
         THEN {"refilled"} ELSE {})

\* getProfileByMonitag resolved: not found, self-giveaway, or the admission
\* (claimedUsers.add, claimedCount++) and the call of executeP2P with the token
\* `giveaway_${message.id}_${claimedCount}`.
LookupDone(h) ==
  /\ pc[h] = "g_lookup"
  /\ IF tag[h] \notin RecipientTags
       THEN /\ pc' = [pc EXCEPT ![h] = "done"]
            /\ author' = [author EXCEPT ![h] = 0]
            /\ tag' = [tag EXCEPT ![h] = NoTag]
            /\ UNCHANGED <<claimedCount, claimedUsers, token, chainOf, events>>
       ELSE /\ claimedUsers' = claimedUsers \cup {author[h]}
            /\ claimedCount' = claimedCount + 1
            /\ token' = [token EXCEPT ![h] = [msg |-> Cmd, idx |-> claimedCount + 1]]
            /\ chainOf' = [chainOf EXCEPT ![h] = CommandChain]
            /\ events' = events \cup AdmissionEvents(author[h])
            /\ pc' = [pc EXCEPT ![h] = "x_read"]
            /\ UNCHANGED msgVars
  /\ UNCHANGED <<cmdVars, errVars, nonceRead, phase, ended, endReason, announced,
                 chainVars, txVars, routeVars, cmdStatus, ledger, failures, turnedAway>>

\* await reply.reply(`... sent ...`), then the capacity check that stops the
\* collector; a rejected reply lands in the catch block like a failed transfer.
GiveawayReply(h) ==
  /\ pc[h] = "g_reply"
  /\ \/ /\ pc' = [pc EXCEPT ![h] = "done"]
        /\ author' = [author EXCEPT ![h] = 0]
        /\ IF claimedCount >= maxParticipants
             THEN Stop("limit")
             ELSE UNCHANGED <<ended, endReason, announced>>
        /\ UNCHANGED <<cmdVars, errVars, tag, token, chainOf, nonceRead, phase, claimedCount,
                       claimedUsers, routeVars, cmdStatus, ledger, histVars>>
     \/ GiveawayCatch(h, "OTHER")
  /\ UNCHANGED <<chainVars, txVars>>

\* The reply awaited inside the catch block, then collector.stop('funds' | 'allowance');
\* when that reply is rejected the stop is never reached.
GiveawayCatchReply(h) ==
  /\ pc[h] = "g_catchreply"
  /\ pc' = [pc EXCEPT ![h] = "done"]
  /\ \/ IF CatchStopReason(err[h]) # "none"
          THEN Stop(CatchStopReason(err[h]))
          ELSE UNCHANGED <<ended, endReason, announced>>
     \/ UNCHANGED <<ended, endReason, announced>>
  /\ err' = [err EXCEPT ![h] = NoErr]
  /\ errTx' = [errTx EXCEPT ![h] = NoTx]
  /\ UNCHANGED <<cmdVars, msgVars, token, chainOf, nonceRead, phase, claimedCount,
                 claimedUsers, chainVars, txVars, routeVars, cmdStatus, ledger, histVars>>

\* createMessageCollector({ time: 600000 }): the deadline stops the collector.
Timeout ==
  /\ cmdType = "giveaway"
  /\ pc[Cmd] = "collecting"
  /\ ~ended
  /\ Stop("time")
  /\ UNCHANGED <<cmdVars, pc, errVars, msgVars, token, chainOf, nonceRead, phase, claimedCount,
                 claimedUsers, chainVars, txVars, routeVars, cmdStatus, ledger, histVars>>

\* ---------------------------------------------------------------- crossChainCheck
NoAlt == [chain |-> "none", needsAllowance |-> FALSE]

\* checkChainFunds: the status of chain c; `down` are the chains whose every RPC
\* failed, which report no balance and no allowance instead of throwing.
CheckChainFundsUnguarded(c, down) ==
  [hasBalance |-> bal[c] >= Amount, hasAllowance |-> allow[c] >= Amount,
   balance |-> bal[c], allowance |-> allow[c], chain |-> c]

CheckChainFunds(c, down) ==
  IF c \in down
  THEN [hasBalance |-> FALSE, hasAllowance |-> FALSE, balance |-> 0, allowance |-> 0,
        chain |-> c]
  ELSE [hasBalance |-> bal[c] >= Amount, hasAllowance |-> allow[c] >= Amount,
        balance |-> bal[c], allowance |-> allow[c], chain |-> c]

HasBalance(c, down) == CheckChainFunds(c, down).hasBalance

HasAllowance(c, down) == CheckChainFunds(c, down).hasAllowance

\* Object.keys(CHAIN_CHECK_CONFIGS).filter(c => c !== currentChain)
AlternatesReversed(current) ==
  LET a == SelectSeq(Chains, LAMBDA c : c # current)
  IN [i \in 1..Len(a) |-> a[Len(a) + 1 - i]]

AlternatesUnfiltered(current) == Chains

Alternates(current) == SelectSeq(Chains, LAMBDA c : c # current)

\* checks.find(pred): the first chain of the scan order satisfying pred, or "none"
FindFirst(seq, Pred(_)) ==
  LET hits == {i \in 1..Len(seq) : Pred(seq[i])}
  IN IF hits = {} THEN "none"
     ELSE seq[CHOOSE i \in hits : \A j \in hits : i <= j]

\* findAlternateChain(walletAddress, amount, currentChain)
FindAlternateChain(current, down) ==
  LET alts == Alternates(current)
      viable == FindFirst(alts, LAMBDA c : HasBalance(c, down) /\ HasAllowance(c, down))
      balanceOnly == FindFirst(alts, LAMBDA c : HasBalance(c, down) /\ ~HasAllowance(c, down))
  IN IF viable # "none" THEN [chain |-> viable, needsAllowance |-> FALSE]
     ELSE IF balanceOnly # "none" THEN [chain |-> balanceOnly, needsAllowance |-> TRUE]
     ELSE NoAlt

\* What a findAlternateChain(_, _, current) call leaves behind: the chain it
\* excluded, the chains that were unreachable, and `checks`, one status per call
\* of checkChainFunds in the order of `alternates`.
ScanOf(current, down) ==
  LET alts == Alternates(current)
  IN [from |-> current, down |-> down,
      checks |-> [i \in 1..Len(alts) |-> CheckChainFunds(alts[i], down)]]

\* One call of findAlternateChain(_, amount, current) while the chains of `down`
\* are unreachable.
ScanCall(current, down) ==
  /\ alt' = FindAlternateChain(current, down)
  /\ scan' = ScanOf(current, down)
  /\ UNCHANGED <<cmdVars, pc, errVars, msgVars, token, chainOf, nonceRead, phase,
                 giveawayVars, chainVars, txVars, rpcIndexes, todo, results,
                 statusReason, cmdStatus, ledger, histVars>>

\* ---------------------------------------------------------------- handleP2P
\* checkAllowance on command.chain, then logCommand({status: 'processing'}), the
\* "Sending..." reply and the call of executeP2P(..., cmd?.id || message.id, activeChain).
P2PStart ==
  /\ cmdType = "p2p"
  /\ pc[Cmd] = "p_start"
  /\ \/ /\ allow[CommandChain] < Amount
        /\ pc' = [pc EXCEPT ![Cmd] = "done"]
        /\ UNCHANGED <<cmdStatus, token, chainOf>>
     \/ /\ allow[CommandChain] >= Amount
        /\ pc' = [pc EXCEPT ![Cmd] = "x_read"]
        /\ cmdStatus' = "processing"
        /\ token' = [token EXCEPT ![Cmd] = [msg |-> Cmd, idx |-> 0]]
        /\ chainOf' = [chainOf EXCEPT ![Cmd] = CommandChain]
     \/ /\ pc' = [pc EXCEPT ![Cmd] = "x_read"]
        /\ cmdStatus' = "processing"
        /\ token' = [token EXCEPT ![Cmd] = [msg |-> Cmd, idx |-> 0]]
        /\ chainOf' = [chainOf EXCEPT ![Cmd] = CommandChain]
  /\ UNCHANGED <<cmdVars, errVars, msgVars, nonceRead, phase, giveawayVars,
                 chainVars, txVars, routeVars, ledger, histVars>>

\* await logMonibotTransaction(...) after a successful attempt (either phase)
P2PLog ==
  /\ pc[Cmd] = "p_log"
  /\ ledger' = [ledger EXCEPT ![Cmd] = Append(@, chainOf[Cmd])]
  /\ pc' = [pc EXCEPT ![Cmd] = "p_status"]
  /\ UNCHANGED <<cmdVars, errVars, msgVars, token, chainOf, nonceRead, phase, giveawayVars,
                 chainVars, txVars, routeVars, cmdStatus, histVars>>

\* await updateCommandStatus(cmd?.id, 'completed', hash)
P2PStatus ==
  /\ pc[Cmd] = "p_status"
  /\ cmdStatus' = "completed"
  /\ pc' = [pc EXCEPT ![Cmd] = "p_notify"]
  /\ UNCHANGED <<cmdVars, errVars, msgVars, token, chainOf, nonceRead, phase, giveawayVars,
                 chainVars, txVars, routeVars, ledger, histVars>>

\* aiTransactionReply and processingMsg.edit of the success embed; when one of them
\* throws, the enclosing catch takes it as the attempt's error.
P2PNotify ==
  /\ pc[Cmd] = "p_notify"
  /\ \/ /\ pc' = [pc EXCEPT ![Cmd] = "done"]
        /\ CallerFrame
        /\ UNCHANGED nonceRead
     \/ P2PCatch(Cmd, "OTHER")
  /\ UNCHANGED <<chainVars, txVars>>

\* const alt = await findAlternateChain(wallet, amount, activeChain) and the branch on
\* it: a viable alternate goes on to its allowance check, a balance-only alternate
\* ends the command as failed, none falls to the failure tail.
P2PScan ==
  /\ pc[Cmd] = "p_scan"
  /\ \E down \in SUBSET ChainSet :
       LET found == FindAlternateChain(chainOf[Cmd], down)
       IN /\ alt' = found
          /\ scan' = ScanOf(chainOf[Cmd], down)
          /\ UNCHANGED <<rpcIndexes, todo, results>>
          /\ IF found = NoAlt
               THEN /\ pc' = [pc EXCEPT ![Cmd] = "p_fail"]
                    /\ UNCHANGED <<cmdStatus, statusReason>>
               ELSE IF found.needsAllowance
                 THEN /\ pc' = [pc EXCEPT ![Cmd] = "done"]
                      /\ cmdStatus' = "failed"
                      /\ statusReason' = "needs_allowance"
                 ELSE /\ pc' = [pc EXCEPT ![Cmd] = "p_altcheck"]
                      /\ UNCHANGED <<cmdStatus, statusReason>>
  /\ UNCHANGED <<cmdVars, errVars, msgVars, token, chainOf, nonceRead, phase, giveawayVars,
                 chainVars, txVars, ledger, histVars>>

\* checkAllowance(wallet, amount, chain): ok unless the allowance read is below amount
AltAllowanceAlways(c) == TRUE

AltAllowanceOk(c) == allow[c] >= Amount

\* History of the re-verification: "altLow" when getAllowance answered with an
\* allowance below the amount, "altUnread" when the read failed while it was below.
AltCheckEvents(answered) ==
  IF allow[alt.chain] < Amount
    THEN events \cup {IF answered THEN "altLow" ELSE "altUnread"}
    ELSE events

\* checkAllowance on alt.chain; too low ends the command as failed, otherwise
\* activeChain = alt.chain and executeP2P is called again with the same commandId.
P2PAltCheck ==
  /\ pc[Cmd] = "p_altcheck"
  /\ \/ /\ ~AltAllowanceOk(alt.chain)
        /\ pc' = [pc EXCEPT ![Cmd] = "done"]
        /\ cmdStatus' = "failed"
        /\ statusReason' = "alt_allowance_low"
        /\ events' = AltCheckEvents(TRUE)
        /\ UNCHANGED <<chainOf, phase>>
     \/ /\ AltAllowanceOk(alt.chain)
        /\ pc' = [pc EXCEPT ![Cmd] = "x_read"]
        /\ chainOf' = [chainOf EXCEPT ![Cmd] = alt.chain]
        /\ phase' = [phase EXCEPT ![Cmd] = 2]
        /\ events' = AltCheckEvents(TRUE)
        /\ UNCHANGED <<cmdStatus, statusReason>>
     \/ /\ pc' = [pc EXCEPT ![Cmd] = "x_read"]
        /\ chainOf' = [chainOf EXCEPT ![Cmd] = alt.chain]
        /\ phase' = [phase EXCEPT ![Cmd] = 2]
        /\ events' = AltCheckEvents(FALSE)
        /\ UNCHANGED <<cmdStatus, statusReason>>
  /\ UNCHANGED <<cmdVars, errVars, msgVars, token, nonceRead, giveawayVars,
                 chainVars, txVars, alt, scan, rpcIndexes, todo, results, ledger,
                 failures, turnedAway>>

\* The failure tail: updateCommandStatus(cmd?.id, 'failed', ...) and the error message.
P2PFail ==
  /\ pc[Cmd] = "p_fail"
  /\ cmdStatus' = "failed"
  /\ statusReason' = err[Cmd]
  /\ pc' = [pc EXCEPT ![Cmd] = "done"]
  /\ UNCHANGED <<cmdVars, errVars, msgVars, token, chainOf, nonceRead, phase, giveawayVars,
                 chainVars, txVars, alt, scan, rpcIndexes, todo, results, ledger, histVars>>

\* The sender's wallet is their own: between two awaits of a handler they may
\* revoke the router's allowance on a chain.
SenderRevokes(c) ==
  /\ cmdType \in {"p2p", "multi"}
  /\ pc[Cmd] \notin {"p_start", "m_start", "done"}
  /\ allow[c] > 0
  /\ allow' = [allow EXCEPT ![c] = 0]
  /\ UNCHANGED <<cmdVars, pc, errVars, msgVars, token, chainOf, nonceRead, phase, giveawayVars,
                 routerNonce, bal, txVars, routeVars, cmdStatus, ledger, histVars>>

\* ---------------------------------------------------------------- handleP2PMulti
\* checkAllowance on the total (amount x recipients) on command.chain, then the
\* "Sending..." reply; the for loop starts with every recipient ahead.
MultiStart ==
  /\ cmdType = "multi"
  /\ pc[Cmd] = "m_start"
  /\ \/ /\ allow[CommandChain] < Amount * Len(Recipients)
        /\ pc' = [pc EXCEPT ![Cmd] = "done"]
        /\ UNCHANGED todo
     \/ /\ allow[CommandChain] >= Amount * Len(Recipients)
        /\ pc' = [pc EXCEPT ![Cmd] = "m_next"]
        /\ todo' = Recipients
     \/ /\ pc' = [pc EXCEPT ![Cmd] = "m_next"]
        /\ todo' = Recipients
  /\ UNCHANGED <<cmdVars, errVars, msgVars, token, chainOf, nonceRead, phase, giveawayVars,
                 chainVars, txVars, alt, scan, rpcIndexes, results, statusReason,
                 cmdStatus, ledger, histVars>>

\* for (const tag of command.recipients): the recipient the next turn takes
NextRecipientLast(rest) == rest[Len(rest)]

NextRecipient(rest) == Head(rest)

\* One turn of `for (const tag of command.recipients)`: a fresh block scope (error,
\* alt, activeChain = command.chain), getProfileByMonitag(tag), and either the
\* 'Not found' result or the call executeP2P(..., `${message.id}_${tag}`, activeChain).
\* After the last recipient the results embed is posted.
MultiNext ==
  /\ cmdType = "multi"
  /\ pc[Cmd] = "m_next"
  /\ err' = [err EXCEPT ![Cmd] = NoErr]
  /\ errTx' = [errTx EXCEPT ![Cmd] = NoTx]
  /\ alt' = NoAlt
  /\ scan' = NoScan
  /\ events' = {}
  /\ phase' = [phase EXCEPT ![Cmd] = 1]
  /\ chainOf' = [chainOf EXCEPT ![Cmd] = CommandChain]
  /\ IF todo = <<>>
       THEN /\ pc' = [pc EXCEPT ![Cmd] = "done"]
            /\ UNCHANGED <<tag, token, todo, results>>
       ELSE /\ tag' = [tag EXCEPT ![Cmd] = NextRecipient(todo)]
            /\ todo' = Tail(todo)
            /\ \/ /\ pc' = [pc EXCEPT ![Cmd] = "x_read"]
                  /\ token' = [token EXCEPT ![Cmd] =
                                 [msg |-> Cmd, idx |-> Len(Recipients) - Len(todo) + 1]]
                  /\ UNCHANGED results
               \/ /\ pc' = pc
                  /\ results' = Pushed(NextRecipient(todo), "failed", "Not found", "none")
                  /\ UNCHANGED token
  /\ UNCHANGED <<cmdVars, author, nonceRead, giveawayVars, chainVars, txVars, rpcIndexes,
                 statusReason, cmdStatus, ledger, failures, turnedAway>>

\* await logMonibotTransaction(...) and results.push({ status: 'success', chain })
\* after a successful attempt, on command.chain or on alt.chain.
MultiLog ==
  /\ cmdType = "multi"
  /\ pc[Cmd] = "m_log"
  /\ ledger' = [ledger EXCEPT ![Cmd] = Append(@, chainOf[Cmd])]
  /\ results' = Pushed(tag[Cmd], "success", "none", chainOf[Cmd])
  /\ pc' = [pc EXCEPT ![Cmd] = "m_next"]
  /\ UNCHANGED <<cmdVars, errVars, msgVars, token, chainOf, nonceRead, phase, giveawayVars,
                 chainVars, txVars, alt, scan, rpcIndexes, todo, statusReason, cmdStatus,
                 histVars>>

\* const alt = await findAlternateChain(wallet, amount, activeChain): only a viable
\* alternate is taken further; a balance-only alternate or none falls through to
\* results.push({ status: 'failed', reason: error.message.split(':')[0] }).
MultiScan ==
  /\ cmdType = "multi"
  /\ pc[Cmd] = "m_scan"
  /\ \E down \in SUBSET ChainSet :
       LET found == FindAlternateChain(chainOf[Cmd], down)
       IN /\ alt' = found
          /\ scan' = ScanOf(chainOf[Cmd], down)
          /\ IF found # NoAlt /\ ~found.needsAllowance
               THEN /\ pc' = [pc EXCEPT ![Cmd] = "m_altcheck"]
                    /\ UNCHANGED results
               ELSE /\ pc' = [pc EXCEPT ![Cmd] = "m_next"]
                    /\ results' = Pushed(tag[Cmd], "failed", err[Cmd], "none")
  /\ UNCHANGED <<cmdVars, errVars, msgVars, token, chainOf, nonceRead, phase, giveawayVars,
                 chainVars, txVars, rpcIndexes, todo, statusReason, cmdStatus, ledger,
                 histVars>>

\* checkAllowance on alt.chain; when ok executeP2P is called again on alt.chain with
\* the same commandId, otherwise the recipient is recorded with the first error.
MultiAltCheck ==
  /\ cmdType = "multi"
  /\ pc[Cmd] = "m_altcheck"
  /\ \/ /\ ~AltAllowanceOk(alt.chain)
        /\ pc' = [pc EXCEPT ![Cmd] = "m_next"]
        /\ results' = Pushed(tag[Cmd], "failed", err[Cmd], "none")
        /\ events' = AltCheckEvents(TRUE)
        /\ UNCHANGED <<chainOf, phase>>
     \/ /\ AltAllowanceOk(alt.chain)
        /\ pc' = [pc EXCEPT ![Cmd] = "x_read"]
        /\ chainOf' = [chainOf EXCEPT ![Cmd] = alt.chain]
        /\ phase' = [phase EXCEPT ![Cmd] = 2]
        /\ events' = AltCheckEvents(TRUE)
        /\ UNCHANGED results
     \/ /\ pc' = [pc EXCEPT ![Cmd] = "x_read"]
        /\ chainOf' = [chainOf EXCEPT ![Cmd] = alt.chain]
        /\ phase' = [phase EXCEPT ![Cmd] = 2]
        /\ events' = AltCheckEvents(FALSE)
        /\ UNCHANGED results
  /\ UNCHANGED <<cmdVars, errVars, msgVars, token, nonceRead, giveawayVars, chainVars,
                 txVars, alt, scan, rpcIndexes, todo, statusReason, cmdStatus, ledger,
                 failures, turnedAway>>

\* ---------------------------------------------------------------- specifications
CommandAmount == 1500

InitCommon ==
  /\ now = 0
  /\ userCommandTimestamps = [u \in Users |-> <<>>]
  /\ allowedLog = [u \in Users |-> <<>>]
  /\ rateCheck = NoRateCheck
  /\ rows = {}
  /\ delivery = [d \in Deliveries |-> "new"]
  /\ executed = 0
  /\ notifiedJobIds = {}
  /\ notifications = [j \in Jobs |-> 0]
  /\ fetched = NotFetched
  /\ nextPoll = POLL_MS
  /\ nextClear = CLEAR_MS
  /\ reported = [n \in ChainNames |-> 0]
  /\ client = NoClient
  /\ err = [p \in Procs |-> NoErr]
  /\ errTx = [p \in Procs |-> NoTx]
  /\ author = [p \in Procs |-> 0]
  /\ token = [p \in Procs |-> NoToken]
  /\ chainOf = [p \in Procs |-> CommandChain]
  /\ nonceRead = [p \in Procs |-> 0]
  /\ phase = [p \in Procs |-> 1]
  /\ claimedCount = 0
  /\ claimedUsers = {}
  /\ ended = FALSE
  /\ endReason = "none"
  /\ announced = NotAnnounced
  /\ routerNonce = [c \in ChainSet |-> 0]
  /\ txs = {}
  /\ paid = [k \in (0..NumUsers) \X RecipientTags |-> 0]
  /\ alt = NoAlt
  /\ scan = NoScan
  /\ rpcIndexes = [c \in ChainSet |-> 0]
  /\ todo = <<>>
  /\ results = <<>>
  /\ statusReason = "none"
  /\ cmdStatus = "none"
  /\ ledger = [p \in Procs |-> <<>>]
  /\ failures = {}
  /\ turnedAway = {}
  /\ events = {}

\* A giveaway command on CommandChain has been dispatched to handleGiveaway.  The
\* sender's other chains are either empty or funded and approved in full.
Init ==
  /\ InitCommon
  /\ jobStart = [j \in Jobs |-> 0]
  /\ amount = CommandAmount
  /\ cmdType = "giveaway"
  /\ pc = [p \in Procs |-> IF p = Cmd THEN "g_start" ELSE "idle"]
  /\ tag = [p \in Procs |-> NoTag]
  /\ \E b \in 0..MaxFunds, a \in 0..MaxFunds, f \in {0, MaxFunds} :
       /\ bal = [c \in ChainSet |-> IF c = CommandChain THEN b ELSE f]
       /\ allow = [c \in ChainSet |-> IF c = CommandChain THEN a ELSE f]

Next ==
  \/ GiveawayStart
  \/ Timeout
  \/ \E h \in Claims :
       \/ Collect(h)
       \/ LookupDone(h)
       \/ ExecRead(h)
       \/ ExecSubmit(h)
       \/ ExecReceipt(h)
       \/ GiveawayReply(h)
       \/ GiveawayCatchReply(h)

Spec == Init /\ [][Next]_vars

\* A single-transfer command to @alice on CommandChain has been dispatched to handleP2P.
InitP2PAny ==
  /\ InitCommon
  /\ jobStart = [j \in Jobs |-> 0]
  /\ cmdType = "p2p"
  /\ pc = [p \in Procs |-> IF p = Cmd THEN "p_start" ELSE "idle"]
  /\ tag = [p \in Procs |-> IF p = Cmd THEN "alice" ELSE NoTag]
  /\ bal \in [ChainSet -> 0..MaxFunds]
  /\ allow \in [ChainSet -> 0..MaxFunds]

InitP2P ==
  /\ InitP2PAny
  /\ amount = CommandAmount

NextP2P ==
  \/ P2PStart
  \/ ExecRead(Cmd)
  \/ ExecSubmit(Cmd)
  \/ ExecReceipt(Cmd)
  \/ P2PLog
  \/ P2PStatus
  \/ P2PNotify
  \/ P2PScan
  \/ P2PAltCheck
  \/ P2PFail
  \/ \E c \in ChainSet : SenderRevokes(c)

SpecP2P == InitP2P /\ [][NextP2P]_vars

\* A multi-send command to Recipients on CommandChain has been dispatched to
\* handleP2PMulti.
InitMulti ==
  /\ InitCommon
  /\ jobStart = [j \in Jobs |-> 0]
  /\ amount = CommandAmount
  /\ cmdType = "multi"
  /\ pc = [p \in Procs |-> IF p = Cmd THEN "m_start" ELSE "idle"]
  /\ tag = [p \in Procs |-> NoTag]
  /\ bal \in [ChainSet -> 0..MaxFunds]
  /\ allow \in [ChainSet -> 0..MaxFunds]

NextMulti ==
  \/ MultiStart
  \/ MultiNext
  \/ MultiLog
  \/ MultiScan
  \/ MultiAltCheck
  \/ ExecRead(Cmd)
  \/ ExecSubmit(Cmd)
  \/ ExecReceipt(Cmd)

\* The cross-chain routing of transfers, single or one recipient of a multi-send.
InitRoute == InitP2P \/ InitMulti

NextRoute ==
  \/ NextP2P
  \/ NextMulti

SpecRoute == InitRoute /\ [][NextRoute]_vars

\* A single transfer of any amount the parser lets through, zero included.
InitAmount ==
  /\ InitP2PAny
  /\ amount \in Amounts

SpecAmount == InitAmount /\ [][NextP2P]_vars

\* The client factory on its own: failure reports and getClients calls in any order.
InitRpc ==
  /\ InitCommon
  /\ jobStart = [j \in Jobs |-> 0]
  /\ amount = CommandAmount
  /\ cmdType = "none"
  /\ pc = [p \in Procs |-> "idle"]
  /\ tag = [p \in Procs |-> NoTag]
  /\ bal = [c \in ChainSet |-> 0]
  /\ allow = [c \in ChainSet |-> 0]

NextRpc ==
  \E name \in ChainNames :
    \/ RotateRpcCall(name)
    \/ GetClientsCall(name)

SpecRpc == InitRpc /\ [][NextRpc]_vars

\* The rate limiter on its own: commands of any user at any reading of the clock.
NextRate ==
  \/ ClockTick
  \/ RateCleanup
  \/ \E u \in Users : CheckRateLimit(u)

SpecRate == InitRpc /\ [][NextRate]_vars

\* The dispatcher on its own: one message of any payment command type, delivered
\* up to MaxDeliveries times.
InitDedup ==
  /\ InitCommon
  /\ jobStart = [j \in Jobs |-> 0]
  /\ amount = CommandAmount
  /\ cmdType \in {"p2p", "multi", "giveaway", "scheduled"}
  /\ pc = [p \in Procs |-> "idle"]
  /\ tag = [p \in Procs |-> NoTag]
  /\ bal = [c \in ChainSet |-> 0]
  /\ allow = [c \in ChainSet |-> 0]

NextDedup ==
  \E d \in Deliveries :
    \/ Dispatch(d)
    \/ HandlerLog(d)
    \/ HandlerExecute(d)

SpecDedup == InitDedup /\ [][NextDedup]_vars

\* The result poller on its own: two jobs that finished at any time, the poll
\* timer and the clear timer started together by the ClientReady handler.
InitPoller ==
  /\ InitCommon
  /\ jobStart \in [Jobs -> {k * POLL_MS : k \in 0..MaxPolls}]
  /\ amount = CommandAmount
  /\ cmdType = "none"
  /\ pc = [p \in Procs |-> "idle"]
  /\ tag = [p \in Procs |-> NoTag]
  /\ bal = [c \in ChainSet |-> 0]
  /\ allow = [c \in ChainSet |-> 0]

NextPoller ==
  \/ PollerWait
  \/ PollFetch
  \/ PollLoop
  \/ ClearNotified

SpecPoller == InitPoller /\ [][NextPoller]_vars

\* The cross-chain scan on its own: any funds, any excluded chain, any set of
\* unreachable chains, for a positive or a zero amount.
InitScan ==
  /\ InitCommon
  /\ jobStart = [j \in Jobs |-> 0]
  /\ amount \in {0, CommandAmount}
  /\ cmdType = "none"
  /\ pc = [p \in Procs |-> "idle"]
  /\ tag = [p \in Procs |-> NoTag]
  /\ bal \in [ChainSet -> 0..MaxFunds]
  /\ allow \in [ChainSet -> 0..MaxFunds]

NextScan ==
  \E current \in ChainSet, down \in SUBSET ChainSet : ScanCall(current, down)

SpecScan == InitScan /\ [][NextScan]_vars

\* ---------------------------------------------------------------- properties
RECURSIVE SumPaid(_)
SumPaid(K) ==
  IF K = {} THEN 0
  ELSE LET k == CHOOSE x \in K : TRUE IN paid[k] + SumPaid(K \ {k})

\* Confirmed payouts to claims of user u, and of the whole round.
PaidBy(u) == SumPaid({u} \X RecipientTags)

PaidTotal == SumPaid(DOMAIN paid)

AllSettled == \A h \in Claims : pc[h] \in {"idle", "done"}

\* Handler h takes the step into its catch block.
EntersCatch(h) == pc[h] # "g_catchreply" /\ pc'[h] = "g_catchreply"

\* C1: the admitted count never exceeds the capacity of the giveaway.
C1_CountWithinCapacity == claimedCount <= maxParticipants

\* C2: no two executeP2P invocations on one chain have both read the same router
\* nonce and both submitted a transaction with it.
C2_NoSharedNonceInFlight ==
  \A p, q \in Procs :
    (p # q /\ pc[p] = "x_receipt" /\ pc[q] = "x_receipt" /\ chainOf[p] = chainOf[q])
      => nonceRead[p] # nonceRead[q]

\* C3: no two submitted transfers to different recipients carry the same
\* idempotency token.
C3_TokenUniquePerRecipient ==
  \A t1, t2 \in txs : t1.token = t2.token => t1.to = t2.to

\* C4: one single transfer submits transactions on at most one network, and the
\* attempt on an alternate is made only when nothing was submitted on command.chain.
C4_OneNetworkPerTransfer ==
  /\ Cardinality({t.chain : t \in txs}) <= 1
  /\ phase[Cmd] = 2 => \A t \in txs : t.chain # CommandChain

C4_Witness ==
  /\ phase[Cmd] = 2
  /\ err[Cmd] \in {"ERROR_BALANCE", "ERROR_ALLOWANCE"}
  /\ \E t \in txs : t.chain = chainOf[Cmd] /\ t.chain # CommandChain

\* C5: for every claimant, the transfers executing for them plus the transfers
\* already confirmed for them are at most one.
C5_OneSlotPerClaimant ==
  \A u \in Users :
    Cardinality({h \in Claims : InExec(h) /\ author[h] = u}) + PaidBy(u) <= 1

\* C6: a round that ended with reason 'limit' after turning away a claimant who
\* neither was paid nor had a claim fail, and in which no claim failed for lack of
\* funds or allowance, has paid the full capacity once every handler has finished.
C6_ReleasedSlotReoffered ==
  ( /\ ended /\ endReason = "limit" /\ AllSettled
    /\ \A f \in failures : f[2] = "generic"
    /\ \E a \in turnedAway : PaidBy(a) = 0 /\ a \notin FailedUsers )
    => PaidTotal >= maxParticipants

\* C7: the step into the catch block lowers claimedCount by exactly one, removes
\* exactly the failing claim's author from claimedUsers and moves no other handler.
C7_FailureFreesOneSlot ==
  [][\A h \in Claims :
       EntersCatch(h) =>
         /\ claimedCount' = claimedCount - 1
         /\ claimedUsers' = claimedUsers \ {author[h]}
         /\ \A k \in Claims \ {h} : pc'[k] = pc[k]]_vars

C7_Witness ==
  \E h, k \in Claims :
    /\ pc[h] = "g_catchreply"
    /\ InExec(k)
    /\ author[k] \in claimedUsers
    /\ claimedCount = 1

\* C8: a step of a failed claim ends the round only when its error is insufficient
\* balance or insufficient allowance; entering the catch block never ends it.
C8_OnlyFundsFailureEndsRound ==
  [][\A h \in Claims :
       /\ EntersCatch(h) => ended' = ended
       /\ (pc[h] = "g_catchreply" /\ pc'[h] = "done" /\ ~ended /\ ended')
            => err[h] \in {"ERROR_BALANCE", "ERROR_ALLOWANCE"}]_vars

\* after a generic failure the round was still running and a distinct claimant,
\* admitted since, is executing
C8_Witness ==
  /\ "refilled" \in events
  /\ ~ended
  /\ \E h \in Claims : InExec(h) /\ author[h] \notin FailedUsers

C10_NoAdmissionAfterStop ==
  [][ended => \A h \in Claims : pc[h] \in {"idle", "g_lookup"} => pc'[h] # "x_read"]_vars

\* True when some chain other than c holds both balance and allowance for one transfer.
ViableElsewhere(c) == \E d \in ChainSet \ {c} : bal[d] >= Amount /\ allow[d] >= Amount

\* C11: a giveaway round that was terminated for exhausted funds or authorization
\* while another network held both balance and allowance had its alternate
\* networks scanned first.
C11_ScanBeforeFundsStop ==
  (ended /\ endReason \in {"funds", "allowance"} /\ ViableElsewhere(CommandChain))
    => scan # NoScan

\* The transactions submitted for the transfer at hand (they carry its commandId).
OwnTxs == {t \in txs : t.token = token[Cmd]}

\* C12: alternate networks are scanned, and an alternate is tried, only after the
\* attempt on the preferred network has finished with ERROR_BALANCE or
\* ERROR_ALLOWANCE (so without submitting anything); after a reverted or transport
\* failure of the preferred attempt there is no scan and no attempt elsewhere.
C12_ScanOnlyAfterFundsFailure ==
  /\ (scan # NoScan \/ pc[Cmd] \in {"p_scan", "m_scan"} \/ phase[Cmd] = 2)
       => /\ err[Cmd] \in {"ERROR_BALANCE", "ERROR_ALLOWANCE"}
          /\ \A t \in OwnTxs : t.chain # CommandChain
  /\ scan # NoScan => scan.from = CommandChain
  /\ (InExec(Cmd) /\ phase[Cmd] = 1) => scan = NoScan
  /\ err[Cmd] \in {"ERROR_REVERTED", "OTHER"}
       => /\ scan = NoScan /\ alt = NoAlt /\ phase[Cmd] = 1
          /\ \A t \in OwnTxs : t.chain = CommandChain

\* A transfer that reverted on the preferred network has ended while another
\* network could have paid it, and nothing was scanned.
C12_Witness ==
  /\ err[Cmd] = "ERROR_REVERTED"
  /\ pc[Cmd] \in {"done", "m_next"}
  /\ ViableElsewhere(CommandChain)
  /\ scan = NoScan
  /\ OwnTxs # {}

\* Position of chain c in the configured order of networks.
ScanOrder(c) == CHOOSE i \in 1..Len(Chains) : Chains[i] = c

\* The alternates a scan that left `down` unanswered found with balance and allowance.
ViableSeen(down) ==
  {c \in ChainSet \ {CommandChain} : c \notin down /\ bal[c] >= Amount /\ allow[c] >= Amount}

BalanceLowEverywhere == PaidTotal = 0 /\ \A c \in ChainSet : bal[c] < Amount

C15_BalanceOnlyAlternateReported ==
  (alt # NoAlt /\ alt.needsAllowance) =>
    /\ phase[Cmd] = 1
    /\ \A t \in OwnTxs : t.chain # alt.chain
    /\ (cmdType = "p2p" /\ pc[Cmd] = "done") => statusReason = "needs_allowance"
    /\ (cmdType = "multi" /\ pc[Cmd] = "m_next")
         => results[Len(results)].reason = "needs_allowance"

\* C16: a single transfer whose allowance on the preferred network is below the
\* amount while another network holds both balance and allowance does not end,
\* with nothing submitted and no transport error, before the alternates were scanned.
C16_AllowanceShortfallRerouted ==
  ( /\ cmdType = "p2p" /\ pc[Cmd] = "done"
    /\ allow[CommandChain] < Amount
    /\ ViableElsewhere(CommandChain)
    /\ txs = {} /\ err[Cmd] # "OTHER" )
    => scan # NoScan

\* The outcome of the transfer at hand is a failure.
EndedFailed ==
  /\ (cmdType = "p2p" /\ pc[Cmd] = "done") => cmdStatus = "failed"
  /\ (cmdType = "multi" /\ pc[Cmd] = "m_next") => results[Len(results)].status = "failed"

ReadsDone == pc[Cmd] = "x_read" /\ pc'[Cmd] # "x_read"

\* C18: executeP2P checks balance, then allowance, before anything is submitted:
\* with the balance below the amount it throws ERROR_BALANCE (also when the
\* allowance is short as well), otherwise with the allowance below the amount it
\* throws ERROR_ALLOWANCE; in both cases it goes no further, no transaction is
\* submitted and the sender's nonce is left as it was.
C18_PreflightBeforeSubmit ==
  [][ ReadsDone =>
        LET c == chainOf[Cmd]
            short == bal[c] < Amount \/ allow[c] < Amount
        IN /\ short => pc'[Cmd] # "x_send"
           /\ pc'[Cmd] # "x_send"
                => txs' = txs /\ routerNonce' = routerNonce /\ bal' = bal /\ allow' = allow
           /\ (phase[Cmd] = 1 /\ bal[c] < Amount)
                => err'[Cmd] \in {"ERROR_BALANCE", "OTHER"}
           /\ (phase[Cmd] = 1 /\ bal[c] >= Amount /\ allow[c] < Amount)
                => err'[Cmd] \in {"ERROR_ALLOWANCE", "OTHER"}
           /\ (phase[Cmd] = 1 /\ ~short) => err'[Cmd] \in {NoErr, "OTHER"}
    ]_vars

\* The pre-flight check reported ERROR_BALANCE with balance and allowance both short.
C18_Witness ==
  /\ pc[Cmd] \in {"p_scan", "m_scan"}
  /\ err[Cmd] = "ERROR_BALANCE"
  /\ bal[CommandChain] < Amount /\ allow[CommandChain] < Amount
  /\ txs = {}
  /\ \A c \in ChainSet : routerNonce[c] = 0

\* The step in which the receipt wait of executeP2P ends without a success.
ReceiptFailed == pc[Cmd] = "x_receipt" /\ pc'[Cmd] \notin {"x_receipt", "p_log", "m_log"}

TransportErrorThrown == InExec(Cmd) /\ phase[Cmd] = 1 /\ err'[Cmd] = "OTHER"

\* C20: when executeP2P fails with a transport error, the RPC index of the chain
\* it ran on has been advanced by rotateRpc by the time the error reaches the caller.
C20_TransportErrorRotatesRpc ==
  [][TransportErrorThrown => rpcIndexes' = RotateRpc(chainOf[Cmd])]_vars

\* C21: a transport error reaches the caller of executeP2P only once every endpoint
\* of the chain has been tried, that is while the clients in use are built on the
\* last endpoint of the chain's list.
C21_ErrorOnlyAfterLastEndpoint ==
  [][TransportErrorThrown =>
       GetClients(chainOf[Cmd]) = RpcCount[chainOf[Cmd]] - 1]_vars

\* C22: the RPC index of every chain stays within 0..M-1 for the M endpoints of the
\* chain, never decreases, equals min(k, M-1) after k failure reports for the chain,
\* and a report made while the index is at the last endpoint changes nothing.
C22_CursorCountsFailures ==
  [][\A c \in ChainSet :
       /\ rpcIndexes[c] \in 0..(RpcCount[c] - 1)
       /\ rpcIndexes'[c] \in 0..(RpcCount[c] - 1)
       /\ rpcIndexes[c] = Min(reported[c], RpcCount[c] - 1)
       /\ rpcIndexes'[c] = Min(reported'[c], RpcCount[c] - 1)
       /\ rpcIndexes'[c] >= rpcIndexes[c]
       /\ (rpcIndexes[c] = RpcCount[c] - 1 /\ reported'[c] # reported[c])
            => rpcIndexes' = rpcIndexes]_vars

\* More failures reported for a chain than it has endpoints, its index at the last.
C22_Witness ==
  /\ reported["base"] > RpcCount["base"] - 1
  /\ rpcIndexes["base"] = RpcCount["base"] - 1
  /\ reported["tempo"] > 0

\* C23: a failure report for one chain name changes the RPC index of that chain
\* only, a report for a name with no config changes nothing at all, and every
\* getClients call for a chain builds its clients on the endpoint at the chain's
\* current index, advanced by the reports made before the call.
C23_ReportMovesOnlyItsCursor ==
  [][/\ \A name \in ChainNames :
          reported'[name] # reported[name] =>
            /\ \A c \in ChainSet \ {name} : rpcIndexes'[c] = rpcIndexes[c]
            /\ name \notin ChainSet => rpcIndexes' = rpcIndexes
            /\ client' = client
     /\ (reported' = reported /\ client'.chain # "none")
          => client'.rpc = rpcIndexes[client'.chain]]_vars

\* Clients built on the second endpoint of bsc after one report for bsc, with a
\* report for an unknown name made and the index of base untouched.
C23_Witness ==
  /\ client = [chain |-> "bsc", rpc |-> 1]
  /\ reported["bsc"] = 1
  /\ reported["solana"] > 0
  /\ rpcIndexes["base"] = 0

\* A chain other than the excluded one that is reachable, funded and approved.
ViableReachable ==
  {c \in ChainSet \ ({scan.from} \cup scan.down) : bal[c] >= Amount /\ allow[c] >= Amount}

\* C24: every checkChainFunds call of a scan returns a status, never throws; the
\* status of a chain whose every endpoint failed has no balance, no allowance and
\* zero amounts; and an unreachable chain never keeps the scan from returning a
\* reachable alternate that has both balance and allowance.
C24_UnreachableChainReportsNothing ==
  scan.from # "none" =>
    /\ Len(scan.checks) = Len(Chains) - 1
    /\ \A i \in DOMAIN scan.checks :
         scan.checks[i].chain \in scan.down =>
           /\ ~scan.checks[i].hasBalance
           /\ ~scan.checks[i].hasAllowance
           /\ scan.checks[i].balance = 0
           /\ scan.checks[i].allowance = 0
    /\ alt.chain \notin scan.down
    /\ ViableReachable # {} => alt.chain \in ViableReachable /\ ~alt.needsAllowance

\* A scan from bsc while base, funded and approved, is unreachable: tempo is found.
C24_Witness ==
  /\ scan.from = "bsc"
  /\ scan.down = {"base"}
  /\ amount > 0
  /\ bal["base"] >= Amount /\ allow["base"] >= Amount
  /\ alt = [chain |-> "tempo", needsAllowance |-> FALSE]

\* The indexes of the scan's checks that were made on chain c.
ChecksOf(c) == {i \in DOMAIN scan.checks : scan.checks[i].chain = c}

\* C25: a scan checks every configured chain other than the excluded one exactly
\* once, never checks the excluded chain, and never returns it as the alternate.
C25_ScanCoversAllButExcluded ==
  scan.from # "none" =>
    /\ \A c \in ChainSet \ {scan.from} : Cardinality(ChecksOf(c)) = 1
    /\ ChecksOf(scan.from) = {}
    /\ alt.chain # scan.from

\* A scan that excluded tempo, itself funded and approved, and returned base.
C25_Witness ==
  /\ scan.from = "tempo"
  /\ amount > 0
  /\ bal["tempo"] >= Amount /\ allow["tempo"] >= Amount
  /\ alt.chain = "base"
  /\ Len(scan.checks) = 2

\* a * 10^(decimals - 2) in decimal digits: the amount of a hundredths in token units.
RoundedUnits(a, decimals) ==
  IF a = 0 THEN <<0>> ELSE Digits(a) \o Zeros(decimals - 2)

C27_NoSubmitForZeroAmount == amount <= 0 => txs = {}

\* The results of the multi-send that report a success.
Successes == {i \in DOMAIN results : results[i].status = "success"}

\* C28: logMonibotTransaction is called at most once per transfer: at most once by
\* a single transfer whatever path it takes, reroute and failed notification
\* included, and by a multi-send once per recipient reported as sent and never for
\* another, each recipient having one result; and never without a confirmed payment.
C28_LedgerOncePerTransfer ==
  /\ cmdType = "p2p" => Len(ledger[Cmd]) <= 1
  /\ cmdType = "multi" =>
       /\ Len(ledger[Cmd]) = Cardinality(Successes)
       /\ \A i, j \in DOMAIN results : results[i].tag = results[j].tag => i = j
  /\ Len(ledger[Cmd]) <= PaidTotal

\* A single transfer that was logged and whose success message then failed to send:
\* the handler went through its catch block after the ledger row was written.
C28_Witness ==
  /\ cmdType = "p2p"
  /\ Len(ledger[Cmd]) = 1
  /\ err[Cmd] = "OTHER"
  /\ pc[Cmd] = "done"

\* The failure reasons that are one of the error kinds executeP2P classifies or a
\* fixed text of the handler; "OTHER" is the text of an unclassified library error.
ClassifiedReasons == {"ERROR_BALANCE", "ERROR_ALLOWANCE", "ERROR_REVERTED", "Not found"}

\* C29: the failure reason shown for a recipient is always a classified error kind
\* or a fixed message, never the text of a transport error.
C29_ShownReasonsClassified ==
  \A i \in DOMAIN results :
    results[i].status = "failed" => results[i].reason \in ClassifiedReasons

\* The multi-send is inside one recipient's turn: its attempt, scan, retry or log.
InTurn == pc[Cmd] \notin {"m_start", "m_next", "done"}

\* The recipients whose turn has started: those with a result and the one in turn.
Started == Len(results) + (IF InTurn THEN 1 ELSE 0)

\* C30: a multi-send handles its recipients one at a time in the order given: the
\* results are a prefix of command.recipients in order, the recipient in turn is
\* the one right after them, the rest are still ahead in order, and no transaction
\* exists for a recipient whose predecessor has not reached its result; an attempt
\* in progress, first or rerouted, is the one of the recipient in turn.
C30_RecipientsInOrder ==
  (cmdType = "multi" /\ pc[Cmd] # "m_start" /\ (pc[Cmd] = "done" => results # <<>>)) =>
    /\ \A i \in DOMAIN results : results[i].tag = Recipients[i]
    /\ InTurn => tag[Cmd] = Recipients[Len(results) + 1]
    /\ todo = SubSeq(Recipients, Started + 1, Len(Recipients))
    /\ \A t \in txs : \E i \in 1..Started : t.to = Recipients[i]
    /\ InExec(Cmd) => token[Cmd].idx = Len(results) + 1

\* The second recipient's rerouted attempt awaits its receipt after the first
\* recipient was paid and recorded.
C30_Witness ==
  /\ cmdType = "multi"
  /\ Len(results) = 1 /\ results[1].tag = "alice" /\ results[1].status = "success"
  /\ tag[Cmd] = "bob"
  /\ phase[Cmd] = 2
  /\ pc[Cmd] = "x_receipt"

\* The core payload of a submitted transaction as its fields determine it.
CorePayload(t) ==
  <<"executeP2P", "sender", t.to, RoundedUnits(amount, TokenDecimals[t.chain]),
    t.data[5], t.token>>

\* C31: the data of a submitted transaction is the core encoded payload, recipient
\* and amount fields unchanged, followed by the builder-code suffix on base, whose
\* config sets useBuilderCode, and by nothing on bsc and tempo, whose config does not.
C31_SuffixOnlyOnFlaggedChain ==
  \A t \in txs :
    /\ t.data[5] \in Nat
    /\ t.chain = "base" => t.data = CorePayload(t) \o <<BuilderCodeSuffix>>
    /\ t.chain # "base" => t.data = CorePayload(t)

\* A multi-send that submitted one transfer on base and, rerouted, one on bsc.
C31_Witness ==
  \E t1, t2 \in txs :
    /\ t1.chain = "base" /\ Len(t1.data) = 7
    /\ t2.chain = "bsc" /\ Len(t2.data) = 6

\* The allowed commands of u that fall in the 60 seconds starting at time t.
AllowedFrom(u, t, log) ==
  {j \in DOMAIN log[u] : log[u][j] >= t /\ log[u][j] - t < RATE_LIMIT_WINDOW_MS}

\* The allowed commands of u in the 60 seconds that end now.
AllowedLately(u) ==
  {j \in DOMAIN allowedLog[u] : now - allowedLog[u][j] < RATE_LIMIT_WINDOW_MS}

\* C32: in every window of 60 seconds at most 5 commands of one user are allowed;
\* a command is rejected exactly when 5 commands of the same user were allowed in
\* the last 60 seconds, whatever other users did, and is then told to retry after
\* a number of seconds between 1 and 60.
C32_FivePerUserPerMinute ==
  [][/\ \A u \in Users : \A i \in DOMAIN allowedLog'[u] :
          Cardinality(AllowedFrom(u, allowedLog'[u][i], allowedLog')) <= RATE_LIMIT_MAX
     /\ rateCheck'.seen # rateCheck.seen =>
          /\ rateCheck'.allowed <=>
                Cardinality(AllowedLately(rateCheck'.user)) < RATE_LIMIT_MAX
          /\ ~rateCheck'.allowed => rateCheck'.retryAfter \in 1..60
          /\ \A v \in Users \ {rateCheck'.user} : allowedLog'[v] = allowedLog[v]]_vars

\* A sixth command of user 1 rejected 22.5 seconds after five allowed ones, while
\* user 2 had a command allowed in between.
C32_Witness ==
  /\ rateCheck.user = 1
  /\ ~rateCheck.allowed
  /\ rateCheck.retryAfter = 38
  /\ Len(allowedLog[1]) = RATE_LIMIT_MAX
  /\ Len(allowedLog[2]) = 1

\* C33: a single-transfer command whose transfer was confirmed on-chain is never
\* afterwards recorded with status 'failed'.
C33_ConfirmedNeverFailed ==
  (cmdType = "p2p" /\ PaidTotal > 0) => cmdStatus # "failed"

\* Handler h goes to its catch block from the reply that follows a confirmed
\* transfer and its ledger row.
CatchAfterPayout(h) == pc[h] = "g_reply" /\ pc'[h] = "g_catchreply"

\* C34: a giveaway slot is released only for a claim whose transfer did not
\* succeed: no handler whose transfer was confirmed decrements claimedCount or
\* removes its claimant from claimedUsers.
C34_SlotKeptAfterPayout ==
  [][\A h \in Claims :
       CatchAfterPayout(h) =>
         claimedCount' = claimedCount /\ claimedUsers' = claimedUsers]_vars

\* C35: the count announced when the giveaway ends is the number of claims of the
\* round whose transfer succeeded, those still executing at the end included.
C35_AnnouncedEqualsPayouts ==
  (ended /\ AllSettled) => announced = PaidTotal

\* C36: a single-transfer command gets exactly one terminal status: once its row
\* is 'completed' or 'failed', no later step of the handler writes another status.
C36_TerminalStatusWrittenOnce ==
  [][(cmdType = "p2p" /\ cmdStatus \in {"completed", "failed"})
       => cmdStatus' = cmdStatus]_vars

\* C37: however often a Discord message is delivered, its payment command is
\* executed at most once.
C37_MessageExecutedOnce == executed <= 1

\* Confirmed payouts of the round to the profile of MoniTag t, whoever claimed.
PaidTo(t) == SumPaid((0..NumUsers) \X {t})

\* C38: in one giveaway round no recipient receives more than one payout.
C38_OnePayoutPerRecipient == \A t \in RecipientTags : PaidTo(t) <= 1

\* C39: no finished scheduled job is announced to its channel more than once.
C39_JobAnnouncedOnce == \A j \in Jobs : notifications[j] <= 1

====
